---- MODULE Spec2Model ----
(***************************************************************************)
(* Lead-gen scraper: the /estimate and /search routes (app/main.py), the   *)
(* grid search and cost estimate of PlacesSearcher (app/google_places.py), *)
(* the page scanners and batch loop of WebsiteScraper (app/scraper.py) and *)
(* the spreadsheet calls of SheetsHandler (app/sheets_handler.py).         *)
(*                                                                         *)
(* Each component is a state machine of its own over its own variables;    *)
(* the specifications SpecEstimate, Spec (the /search route), SpecArea,    *)
(* SpecEmail, SpecSocial and SpecBatch each run one of them and leave the  *)
(* variables of the others at their idle values.                           *)
(***************************************************************************)
EXTENDS Integers, Sequences, FiniteSets, TLC

VARIABLES
    \* POST /estimate
    epc, eradius, eresponse,
    \* POST /search
    pc, req, clock, estimate, nleads, tab_name, calls, raised, response, sheetTabs,
    \* PlacesSearcher.search_area
    apc, center, aradius, grid_points, gidx, seen, unique_places, nearbyCalls, areaResult,
    \* WebsiteScraper.find_email
    mpc, page, emailResult,
    \* WebsiteScraper.find_social_links
    spc, link, sidx, socials, writes,
    \* WebsiteScraper.scrape_batch
    bpc, leads, leads0, bidx, scrapeLog, sleeps,
    \* PlacesSearcher.parse_address_components
    ppc, components, parsed,
    \* two /search runs writing to one spreadsheet
    wpc, wreq, wsheet, wraised

estVars    == <<epc, eradius, eresponse>>
routeVars  == <<pc, req, clock, estimate, nleads, tab_name, calls, raised, response, sheetTabs>>
areaVars   == <<apc, center, aradius, grid_points, gidx, seen, unique_places, nearbyCalls, areaResult>>
emailVars  == <<mpc, page, emailResult>>
socialVars == <<spc, link, sidx, socials, writes>>
batchVars  == <<bpc, leads, leads0, bidx, scrapeLog, sleeps>>
addrVars   == <<ppc, components, parsed>>
twoVars    == <<wpc, wreq, wsheet, wraised>>
vars       == <<estVars, routeVars, areaVars, emailVars, socialVars, batchVars, addrVars,
                twoVars>>

None == "None"

EstFrame    == UNCHANGED <<routeVars, areaVars, emailVars, socialVars, batchVars, addrVars,
                            twoVars>>
RouteFrame  == UNCHANGED <<estVars, areaVars, emailVars, socialVars, batchVars, addrVars,
                            twoVars>>
AreaFrame   == UNCHANGED <<estVars, routeVars, emailVars, socialVars, batchVars, addrVars,
                            twoVars>>
EmailFrame  == UNCHANGED <<estVars, routeVars, areaVars, socialVars, batchVars, addrVars,
                            twoVars>>
SocialFrame == UNCHANGED <<estVars, routeVars, areaVars, emailVars, batchVars, addrVars,
                            twoVars>>
BatchFrame  == UNCHANGED <<estVars, routeVars, areaVars, emailVars, socialVars, addrVars,
                            twoVars>>
AddrFrame   == UNCHANGED <<estVars, routeVars, areaVars, emailVars, socialVars, batchVars,
                            twoVars>>
TwoFrame    == UNCHANGED <<estVars, routeVars, areaVars, emailVars, socialVars, batchVars,
                            addrVars>>

Max(a, b) == IF a >= b THEN a ELSE b

\* Python's int(a / b) for integers: the quotient truncated toward zero.
TruncDiv(a, b) == IF a >= 0 THEN a \div b ELSE -((-a) \div b)

----------------------------------------------------------------------------
(* Bounds *)

MaxRadius == 60      \* radii submitted to /estimate: 0..MaxRadius
MaxLeads  == 2       \* leads a /search run finds: 0..MaxLeads
MaxSeen   == 2       \* place records returned in one search_area call, all grid points together
MaxResp   == 2       \* place records in one search_nearby response
MaxEmails == 2       \* pattern matches in a page's text
MaxAnchors == 2      \* anchors handed to find_email
MaxLinks  == 4       \* anchors scanned by find_social_links
MaxBatch  == 2       \* leads handed to scrape_batch
MaxComponents == 2   \* address components of one place record

----------------------------------------------------------------------------
(* PlacesSearcher.estimate_cost; dollar amounts are in thousandths *)

GridSpacing == 10
SearchCostMilli == 32
PlacesPerSearch == 10

\* num_points with the quotient rounded to nearest instead of truncated
NumPointsRounded(radius_miles) == Max(1, TruncDiv(radius_miles + 5, GridSpacing))

\* max(1, int(radius_miles / grid_spacing))
NumPoints(radius_miles) == Max(1, TruncDiv(radius_miles, GridSpacing))

EstimateCost(radius_miles) ==
    LET num_points   == NumPoints(radius_miles) * 2 + 1
        num_searches == num_points * num_points
        search_cost  == num_searches * SearchCostMilli
    IN  [estimated_searches |-> num_searches,
         estimated_places   |-> num_searches * PlacesPerSearch,
         nearby_cost        |-> search_cost,
         details_cost       |-> 0,
         total_cost         |-> search_cost]

----------------------------------------------------------------------------
(* POST /estimate *)

EstIdle == epc = "idle" /\ eradius = 0 /\ eresponse = None

EstInit ==
    /\ epc = "request"
    /\ eradius \in 0..MaxRadius
    /\ eresponse = None

EstimateRoute ==
    /\ epc = "request"
    /\ eresponse' = [success |-> TRUE, estimate |-> EstimateCost(eradius)]
    /\ epc' = "done"
    /\ UNCHANGED eradius
    /\ EstFrame

----------------------------------------------------------------------------
(* POST /search: run_search, one action per statement that calls a        *)
(* component; log_search_metadata is entered by the route and then runs    *)
(* one action per spreadsheet call.                                        *)

Keywords == {"vet clinic", "vet_clinic"}
Zipcodes == {"10001"}
RouteRadii == {10, 25}
Minutes == {0, 1}

\* keyword.replace(' ', '_')
ReplaceSpaces(keyword) == IF keyword = "vet clinic" THEN "vet_clinic" ELSE keyword

\* f"{keyword.replace(' ', '_')}_{zipcode}_{timestamp}", timestamp to the minute
TabName(keyword, zipcode, minute) == <<ReplaceSpaces(keyword), zipcode, minute>>

MetadataTab == <<"Metadata">>

NoResponse == [success |-> FALSE, error |-> "<no response yet>"]
NoResults == [success |-> FALSE, error |-> "No results found"]

Call(op, by, arg, res) == [op |-> op, by |-> by, arg |-> arg, res |-> res]

RouteIdle ==
    /\ pc = "idle" /\ req = None /\ clock = 0 /\ estimate = None /\ nleads = 0
    /\ tab_name = None /\ calls = <<>> /\ raised = None /\ response = NoResponse
    /\ sheetTabs = {}

RouteInit ==
    /\ pc = "estimate"
    /\ req \in [keyword : Keywords, zipcode : Zipcodes, radius : RouteRadii,
                scrape_websites : BOOLEAN]
    /\ clock \in Minutes
    /\ estimate = None
    /\ nleads = 0
    /\ tab_name = None
    /\ calls = <<>>
    /\ raised = None
    /\ response = NoResponse
    /\ sheetTabs \in {{}, {MetadataTab}}

\* the handler body without the try: the exception leaves the route and no
\* JSON body is produced
RouteUncaught(e) ==
    /\ raised' = e
    /\ response' = response
    /\ pc' = "done"

\* except Exception as e: return {"success": False, "error": str(e)}
RouteCatch(e) ==
    /\ raised' = e
    /\ response' = [success |-> FALSE, error |-> e]
    /\ pc' = "done"

\* estimate = places_searcher.estimate_cost(radius)
EstimateStep ==
    /\ pc = "estimate"
    /\ estimate' = EstimateCost(req.radius)
    /\ calls' = Append(calls, Call("estimateCost", "route", req.radius, "ok"))
    /\ pc' = "search"
    /\ UNCHANGED <<req, clock, nleads, tab_name, raised, response, sheetTabs>>
    /\ RouteFrame

\* the `if not leads` test, never taken
NoLeadsNever(n) == FALSE

\* if not leads:
NoLeads(n) == n = 0

\* the three writes with the data written before the headers
StepAfterDataFirst(step) ==
    CASE step = "tab" -> "data"
      [] step = "data" -> "headers"
      [] step = "headers" -> "meta"

\* the statement that follows each spreadsheet write of the route; the
\* result of the write is not looked at
StepAfter(step) ==
    CASE step = "tab" -> "headers"
      [] step = "headers" -> "data"
      [] step = "data" -> "meta"

\* leads = places_searcher.search_area(...); if not leads: return No results found.
\* search_area returns a list (empty when geocoding fails or nothing is in
\* range) or raises on a place record it cannot read (its loop body is not
\* inside a try).
SearchStep ==
    /\ pc = "search"
    /\ \/ /\ calls' = Append(calls, Call("searchArea", "route", req.zipcode, "raised"))
          /\ RouteCatch("malformed place record")
          /\ UNCHANGED nleads
       \/ \E n \in 0..MaxLeads :
             /\ calls' = Append(calls, Call("searchArea", "route", req.zipcode, "returned"))
             /\ nleads' = n
             /\ IF NoLeads(n)
                THEN /\ response' = NoResults
                     /\ pc' = "done"
                ELSE /\ response' = response
                     /\ pc' = IF req.scrape_websites THEN "scrape" ELSE "auth"
             /\ UNCHANGED raised
    /\ UNCHANGED <<req, clock, estimate, tab_name, sheetTabs>>
    /\ RouteFrame

\* scraper = WebsiteScraper(); leads = scraper.scrape_batch(leads, delay=1)
ScrapeStep ==
    /\ pc = "scrape"
    /\ calls' = Append(calls, Call("scrapeBatch", "route", nleads, "ok"))
    /\ pc' = "auth"
    /\ UNCHANGED <<req, clock, estimate, nleads, tab_name, raised, response, sheetTabs>>
    /\ RouteFrame

\* sheets_handler = SheetsHandler(GOOGLE_SHEET_ID): __init__ runs authenticate(),
\* which has no try of its own; then the tab name is built.
AuthStep ==
    /\ pc = "auth"
    /\ \E ok \in BOOLEAN :
          IF ok
          THEN /\ calls' = Append(calls, Call("SheetsHandler", "route", None, "ok"))
               /\ tab_name' = TabName(req.keyword, req.zipcode, clock)
               /\ pc' = "tab"
               /\ UNCHANGED <<raised, response>>
          ELSE /\ calls' = Append(calls, Call("SheetsHandler", "route", None, "raised"))
               /\ RouteCatch("credentials.json not found")
               /\ UNCHANGED tab_name
    /\ UNCHANGED <<req, clock, estimate, nleads, sheetTabs>>
    /\ RouteFrame

\* SheetsHandler.create_new_tab: addSheet fails on a duplicate title or on an
\* API error; the failure is caught and None returned.
CreateNewTab(name, by, apiOk) ==
    LET ok == apiOk /\ name \notin sheetTabs
    IN  /\ sheetTabs' = IF ok THEN sheetTabs \cup {name} ELSE sheetTabs
        /\ calls' = Append(calls, Call("createNewTab", by, name, IF ok THEN "ok" ELSE "failed"))

TabStep ==
    /\ pc = "tab"
    /\ \E apiOk \in BOOLEAN : CreateNewTab(tab_name, "route", apiOk)
    /\ pc' = StepAfter("tab")
    /\ UNCHANGED <<req, clock, estimate, nleads, tab_name, raised, response>>
    /\ RouteFrame

\* SheetsHandler.write_headers: values.update on <tab>!A1:M1, then
\* format_headers (which swallows its own errors); False on any error.
HeadersStep ==
    /\ pc = "headers"
    /\ \E apiOk \in BOOLEAN :
          LET ok == apiOk /\ tab_name \in sheetTabs
          IN  calls' = Append(calls, Call("writeHeaders", "route", tab_name,
                                          IF ok THEN "ok" ELSE "failed"))
    /\ pc' = StepAfter("headers")
    /\ UNCHANGED <<req, clock, estimate, nleads, tab_name, raised, response, sheetTabs>>
    /\ RouteFrame

\* SheetsHandler.write_data: values.append on <tab>!A2; False on any error.
DataStep ==
    /\ pc = "data"
    /\ \E apiOk \in BOOLEAN :
          LET ok == apiOk /\ tab_name \in sheetTabs
          IN  calls' = Append(calls, Call("writeData", "route", tab_name,
                                          IF ok THEN "ok" ELSE "failed"))
    /\ pc' = StepAfter("data")
    /\ UNCHANGED <<req, clock, estimate, nleads, tab_name, raised, response, sheetTabs>>
    /\ RouteFrame

\* sheets_handler.log_search_metadata(...): the route enters the method.
MetaStep ==
    /\ pc = "meta"
    /\ calls' = Append(calls, Call("logSearchMetadata", "route", nleads, "invoked"))
    /\ pc' = "meta_probe"
    /\ UNCHANGED <<req, clock, estimate, nleads, tab_name, raised, response, sheetTabs>>
    /\ RouteFrame

\* try: values.get("Metadata!A1") except: (create the tab)
MetaProbe ==
    /\ pc = "meta_probe"
    /\ \E apiOk \in BOOLEAN :
          pc' = IF apiOk /\ MetadataTab \in sheetTabs THEN "meta_append" ELSE "meta_create"
    /\ UNCHANGED <<req, clock, estimate, nleads, tab_name, calls, raised, response, sheetTabs>>
    /\ RouteFrame

\* self.create_new_tab("Metadata")
MetaCreate ==
    /\ pc = "meta_create"
    /\ \E apiOk \in BOOLEAN : CreateNewTab(MetadataTab, "logSearchMetadata", apiOk)
    /\ pc' = "meta_hdr"
    /\ UNCHANGED <<req, clock, estimate, nleads, tab_name, raised, response>>
    /\ RouteFrame

\* values.update("Metadata!A1:G1") inside the except block: an error here is
\* not caught by log_search_metadata and reaches the route's except clause.
MetaHeader ==
    /\ pc = "meta_hdr"
    /\ \E apiOk \in BOOLEAN :
          IF apiOk /\ MetadataTab \in sheetTabs
          THEN /\ pc' = "meta_fmt"
               /\ UNCHANGED <<raised, response>>
          ELSE RouteCatch("HttpError: Metadata!A1:G1")
    /\ UNCHANGED <<req, clock, estimate, nleads, tab_name, calls, sheetTabs>>
    /\ RouteFrame

\* self.format_headers("Metadata"): swallows its own errors
MetaFormat ==
    /\ pc = "meta_fmt"
    /\ pc' = "meta_append"
    /\ UNCHANGED <<req, clock, estimate, nleads, tab_name, calls, raised, response, sheetTabs>>
    /\ RouteFrame

\* try: values.append("Metadata!A2") except Exception: print; then the route
\* builds the success response.
MetaAppend ==
    /\ pc = "meta_append"
    /\ response' = [success |-> TRUE, results_count |-> nleads, tab_name |-> tab_name,
                    estimated_cost |-> estimate.total_cost]
    /\ pc' = "done"
    /\ UNCHANGED <<req, clock, estimate, nleads, tab_name, calls, raised, sheetTabs>>
    /\ RouteFrame

RouteNext ==
    \/ EstimateStep \/ SearchStep \/ ScrapeStep \/ AuthStep
    \/ TabStep \/ HeadersStep \/ DataStep
    \/ MetaStep \/ MetaProbe \/ MetaCreate \/ MetaHeader \/ MetaFormat \/ MetaAppend

----------------------------------------------------------------------------
(* PlacesSearcher.search_area                                              *)
(*                                                                         *)
(* Coordinates are integers in ticks of 5 nominal miles: 5/69 of a degree  *)
(* of latitude, and 5/(69 cos(center_lat)) of a degree of longitude, the   *)
(* units calculate_grid_points steps in.  haversine_distance uses R = 3959,*)
(* for which one such tick is 3959 * pi/180 * 5/69 = 5.007 miles, so over  *)
(* the few tens of miles of a search the distance is 5.007 * sqrt(dlat^2 + *)
(* dlng^2) miles; distances are compared squared, in thousandths of a mile.*)

Missing == -999          \* Python's None from dict.get on an absent key
TickMilliMiles == 5007
TicksPerSpacing == 2     \* grid_spacing_miles = 10 = 2 ticks

Coord(lat, lng) == [lat |-> lat, lng |-> lng]

\* `not x` for a coordinate component: None and 0 are both falsy
Falsy(x) == x = Missing \/ x = 0

HaversineSq(lat1, lon1, lat2, lon2) ==
    TickMilliMiles * TickMilliMiles
        * ((lat2 - lat1) * (lat2 - lat1) + (lon2 - lon1) * (lon2 - lon1))

\* distance <= radius_miles
WithinRadius(lat1, lon1, lat2, lon2, radius_miles) ==
    HaversineSq(lat1, lon1, lat2, lon2) <= (1000 * radius_miles) * (1000 * radius_miles)

\* the k-th (i, j) of: for i in range(-n, n+1): for j in range(-n, n+1)
LatticeOffset(n, k) ==
    [i |-> -n + ((k - 1) \div (2 * n + 1)), j |-> -n + ((k - 1) % (2 * n + 1))]

LatticePoint(c, o) == Coord(c.lat + o.i * TicksPerSpacing, c.lng + o.j * TicksPerSpacing)

\* the mutation of calculate_grid_points that keeps every lattice point
AllLatticePoints(c, radius_miles) ==
    LET n == NumPoints(radius_miles)
    IN  [k \in 1..((2 * n + 1) * (2 * n + 1)) |-> LatticePoint(c, LatticeOffset(n, k))]

CalculateGridPoints(c, radius_miles) ==
    LET n   == NumPoints(radius_miles)
        all == [k \in 1..((2 * n + 1) * (2 * n + 1)) |-> LatticePoint(c, LatticeOffset(n, k))]
        InRange(p) == WithinRadius(c.lat, c.lng, p.lat, p.lng, radius_miles)
    IN  SelectSeq(all, InRange)

AreaRadii == {10, 15, 20}

\* what geocode_zipcode returns: (None, None) on any failure, else the location
Centers == {Coord(Missing, Missing), Coord(0, 1), Coord(1, 0), Coord(1, 1)}

PlaceIds == {"p1", "p2"}
PlaceNames == {"a", "b"}
\* place.get('location', {}): absent, on the equator, on the prime meridian,
\* and at 1, 3 and 4 ticks of longitude on latitude tick 1
PlaceLocs == {Coord(Missing, Missing), Coord(0, 1), Coord(1, 0), Coord(1, 1),
              Coord(1, 3), Coord(1, 4)}
RawPlaces == [id : PlaceIds, name : PlaceNames, location : PlaceLocs]

\* lead_data; name stands for the fields copied from the place record
LeadData(place) ==
    [name |-> place.name, place_id |-> place.id,
     email |-> "", facebook |-> "", instagram |-> "", linkedin |-> "", twitter |-> ""]

\* place_id in unique_places (a dict, kept here in insertion order)
Recorded(up, place_id) == \E k \in 1..Len(up) : up[k].place_id = place_id

\* the two checks between the dedup test and the lead construction
PassesFilter(place, c, radius_miles) ==
    /\ ~ (Falsy(place.location.lat) \/ Falsy(place.location.lng))
    /\ WithinRadius(c.lat, c.lng, place.location.lat, place.location.lng, radius_miles)

\* the iteration without the `place_id in unique_places` test: a later
\* record that passes the filter replaces the lead recorded for its place_id
ProcessPlaceOverwrite(up, place, c, radius_miles) ==
    IF ~ PassesFilter(place, c, radius_miles) THEN up
    ELSE IF Recorded(up, place.id)
         THEN [k \in 1..Len(up) |->
                  IF up[k].place_id = place.id THEN LeadData(place) ELSE up[k]]
         ELSE Append(up, LeadData(place))

\* one iteration of `for place in places`
ProcessPlace(up, place, c, radius_miles) ==
    IF Recorded(up, place.id) THEN up
    ELSE IF PassesFilter(place, c, radius_miles) THEN Append(up, LeadData(place))
    ELSE up

RECURSIVE ProcessPlaces(_, _, _, _)
ProcessPlaces(up, places, c, radius_miles) ==
    IF places = <<>> THEN up
    ELSE ProcessPlaces(ProcessPlace(up, Head(places), c, radius_miles), Tail(places),
                       c, radius_miles)

\* the record of one place met by the loop: the place, whether its id was
\* already recorded when it was met, and whether it added a lead
RECURSIVE SeenLog(_, _, _, _)
SeenLog(up, places, c, radius_miles) ==
    IF places = <<>> THEN <<>>
    ELSE LET p   == Head(places)
             up2 == ProcessPlace(up, p, c, radius_miles)
         IN  <<[place |-> p, recorded |-> Recorded(up, p.id), added |-> Len(up2) > Len(up),
                changed |-> up2 # up]>>
             \o SeenLog(up2, Tail(places), c, radius_miles)

Responses(room) ==
    UNION {[1..m -> RawPlaces] : m \in 0..(IF room < MaxResp THEN room ELSE MaxResp)}

AreaIdle ==
    /\ apc = "idle" /\ center = Coord(Missing, Missing) /\ aradius = 0
    /\ grid_points = <<>> /\ gidx = 0 /\ seen = <<>> /\ unique_places = <<>>
    /\ nearbyCalls = 0 /\ areaResult = <<>>

AreaInit ==
    /\ apc = "geocode"
    /\ aradius \in AreaRadii
    /\ center = Coord(Missing, Missing)
    /\ grid_points = <<>> /\ gidx = 0 /\ seen = <<>> /\ unique_places = <<>>
    /\ nearbyCalls = 0 /\ areaResult = <<>>

\* center_lat, center_lng = self.geocode_zipcode(zipcode); if not center_lat: return []
GeocodeFail ==
    /\ apc = "geocode"
    /\ \E c \in Centers :
          /\ Falsy(c.lat)
          /\ center' = c
    /\ areaResult' = <<>>
    /\ apc' = "done"
    /\ UNCHANGED <<aradius, grid_points, gidx, seen, unique_places, nearbyCalls>>
    /\ AreaFrame

\* ... else grid_points = self.calculate_grid_points(center_lat, center_lng, radius_miles)
GeocodeOk ==
    /\ apc = "geocode"
    /\ \E c \in Centers :
          /\ ~ Falsy(c.lat)
          /\ center' = c
          /\ grid_points' = CalculateGridPoints(c, aradius)
    /\ gidx' = 1
    /\ apc' = "grid"
    /\ UNCHANGED <<aradius, seen, unique_places, nearbyCalls, areaResult>>
    /\ AreaFrame

\* one iteration of `for idx, (lat, lng) in enumerate(grid_points, 1)`:
\* search_nearby at the grid point, then the loop over the returned places
SearchGridPoint ==
    /\ apc = "grid"
    /\ gidx <= Len(grid_points)
    /\ \E places \in Responses(MaxSeen - Len(seen)) :
          /\ unique_places' = ProcessPlaces(unique_places, places, center, aradius)
          /\ seen' = seen \o SeenLog(unique_places, places, center, aradius)
    /\ nearbyCalls' = nearbyCalls + 1
    /\ gidx' = gidx + 1
    /\ UNCHANGED <<apc, center, aradius, grid_points, areaResult>>
    /\ AreaFrame

\* return list(unique_places.values())
AreaReturn ==
    /\ apc = "grid"
    /\ gidx > Len(grid_points)
    /\ areaResult' = unique_places
    /\ apc' = "done"
    /\ UNCHANGED <<center, aradius, grid_points, gidx, seen, unique_places, nearbyCalls>>
    /\ AreaFrame

AreaNext == GeocodeFail \/ GeocodeOk \/ SearchGridPoint \/ AreaReturn

----------------------------------------------------------------------------
(* WebsiteScraper.find_email                                               *)
(*                                                                         *)
(* An address is its local part and its domain; a domain is the sequence   *)
(* of pieces it is written with, so that `excl in domain` is "some piece,  *)
(* lower-cased, is excl".  text is the list re.findall returns on the raw  *)
(* page, anchors are the href values of the page's <a> elements.           *)

ExcludedDomains == {"example.com", "yourdomain.com", "email.com",
                    "domain.com", "sentry.io", "wixpress.com"}

\* str.lower() on the pieces in use
Lower(piece) ==
    CASE piece = "Example.COM" -> "example.com"
      [] piece = "WixPress.com" -> "wixpress.com"
      [] OTHER -> piece

Domains == {<<"realbusiness.com">>, <<"example.com">>, <<"Example.COM">>,
            <<"static.", "WixPress.com">>}
Emails == [local : {"info"}, domain : Domains]
NoEmail == [local |-> "", domain |-> <<>>]

\* any(excl in domain for excl in excluded_domains), domain lower-cased
IsExcluded(email) ==
    \E k \in 1..Len(email.domain) : Lower(email.domain[k]) \in ExcludedDomains

\* href values: a scheme and the address the pattern finds in it, if any
Schemes == {"mailto:", "MAILTO:", "https:"}
Hrefs == [scheme : Schemes, email : Emails \cup {NoEmail}]

\* href=re.compile(r'^mailto:', re.I)
IsMailto(href) == href.scheme \in {"mailto:", "MAILTO:"}

FindEmail(text, anchors) ==
    LET NotExcluded(e) == ~ IsExcluded(e)
        MailtoWithEmail(h) == IsMailto(h) /\ h.email # NoEmail
        surviving == SelectSeq(text, NotExcluded)
        mailto == SelectSeq(anchors, MailtoWithEmail)
    IN  IF surviving # <<>> THEN [email |-> Head(surviving), from |-> "text"]
        ELSE IF mailto # <<>> THEN [email |-> Head(mailto).email, from |-> "mailto"]
        ELSE [email |-> NoEmail, from |-> "none"]

SeqsUpTo(S, n) == UNION {[1..m -> S] : m \in 0..n}

EmailIdle ==
    /\ mpc = "idle" /\ page = [text |-> <<>>, anchors |-> <<>>]
    /\ emailResult = [email |-> NoEmail, from |-> "none"]

EmailInit ==
    /\ mpc = "page"
    /\ page \in [text : SeqsUpTo(Emails, MaxEmails), anchors : SeqsUpTo(Hrefs, MaxAnchors)]
    /\ emailResult = [email |-> NoEmail, from |-> "none"]

FindEmailStep ==
    /\ mpc = "page"
    /\ emailResult' = FindEmail(page.text, page.anchors)
    /\ mpc' = "done"
    /\ UNCHANGED page
    /\ EmailFrame

EmailNext == FindEmailStep

----------------------------------------------------------------------------
(* WebsiteScraper.find_social_links                                        *)
(*                                                                         *)
(* An anchor is: the platform host names its lower-cased href contains     *)
(* (has), the platforms whose profile test the href passes (profile), and  *)
(* the URL recorded for it, absolute_url.split('?')[0] (url).              *)

Platforms == {"facebook", "instagram", "linkedin", "twitter"}
Urls == {"u1", "u2"}
Anchors == {a \in [has : SUBSET Platforms, profile : SUBSET Platforms, url : Urls] :
               a.profile \subseteq a.has}
NoAnchor == [has |-> {}, profile |-> {}, url |-> ""]
NoSocials == [p \in Platforms |-> ""]

\* the condition of the platform's branch: '<host>' in href and not socials[p]
BranchCheck(s, a, p) == p \in a.has /\ s[p] = ""

\* the branch of the if/elif chain the anchor takes, "" when it takes none
Branch(s, a) ==
    IF BranchCheck(s, a, "facebook") THEN "facebook"
    ELSE IF BranchCheck(s, a, "instagram") THEN "instagram"
    ELSE IF BranchCheck(s, a, "linkedin") THEN "linkedin"
    ELSE IF BranchCheck(s, a, "twitter") THEN "twitter"
    ELSE ""

\* the loop body with the `not socials[p]` guards dropped and every
\* platform tested on its own (if, not elif)
ScanAnchorNoGuard(s, a) ==
    [p \in Platforms |-> IF p \in a.has /\ p \in a.profile THEN a.url ELSE s[p]]

\* the loop body of find_social_links for one anchor
ScanAnchor(s, a) ==
    LET b == Branch(s, a)
    IN  IF b # "" /\ b \in a.profile THEN [s EXCEPT ![b] = a.url] ELSE s

SocialIdle ==
    /\ spc = "idle" /\ link = NoAnchor /\ sidx = 0 /\ socials = NoSocials
    /\ writes = [p \in Platforms |-> 0]

SocialInit ==
    /\ spc = "scan" /\ link = NoAnchor /\ sidx = 0 /\ socials = NoSocials
    /\ writes = [p \in Platforms |-> 0]

\* one iteration of `for link in links`, on the next anchor of the document
ScanLink ==
    /\ spc = "scan"
    /\ sidx < MaxLinks
    /\ \E a \in Anchors :
          /\ link' = a
          /\ socials' = ScanAnchor(socials, a)
          /\ writes' = [p \in Platforms |->
                           IF ScanAnchor(socials, a)[p] # socials[p] THEN writes[p] + 1
                           ELSE writes[p]]
    /\ sidx' = sidx + 1
    /\ UNCHANGED spc
    /\ SocialFrame

\* return socials
SocialReturn ==
    /\ spc = "scan"
    /\ spc' = "done"
    /\ UNCHANGED <<link, sidx, socials, writes>>
    /\ SocialFrame

SocialNext == ScanLink \/ SocialReturn

----------------------------------------------------------------------------
(* WebsiteScraper.scrape_batch                                             *)

\* the leads handed in: with or without a website, enrichment fields empty
\* or already filled
BatchLeads == [website : {"", "w.com"}, email : {"", "old@w.com"}, facebook : {"", "fb0"},
               instagram : {""}, linkedin : {""}, twitter : {""}]

\* what scrape_website returns for a non-empty url: None (ok = FALSE) or the dict
ScrapedData == [ok : {TRUE}, email : {"", "e@w.com"}, facebook : {"", "fb1"},
                instagram : {""}, linkedin : {"", "li1"}, twitter : {""}]
ScrapeFailed == [ok |-> FALSE, email |-> "", facebook |-> "", instagram |-> "",
                 linkedin |-> "", twitter |-> ""]

\* what scrape_contact_page returns: None ("") or the address it found
ContactResults == {"", "c@w.com"}

BatchIdle ==
    /\ bpc = "idle" /\ leads = <<>> /\ leads0 = <<>> /\ bidx = 0
    /\ scrapeLog = <<>> /\ sleeps = 0

BatchInit ==
    /\ bpc = "loop"
    /\ leads \in SeqsUpTo(BatchLeads, MaxBatch)
    /\ leads0 = leads
    /\ bidx = 1
    /\ scrapeLog = <<>>
    /\ sleeps = 0

\* lead[...] = scraped_data.get(...), then the contact-page fallback
UpdateLead(lead, data, contact) ==
    LET upd == [lead EXCEPT !.email = data.email, !.facebook = data.facebook,
                            !.instagram = data.instagram, !.linkedin = data.linkedin,
                            !.twitter = data.twitter]
    IN  IF upd.email = "" /\ contact # "" THEN [upd EXCEPT !.email = contact] ELSE upd

\* the test that sends a lead to `continue`, dropped
SkipLeadNever(lead) == FALSE

\* if not website: continue
SkipLead(lead) == lead.website = ""

\* time.sleep(delay) reached at the end of every iteration, skipped or not
SleepsAfterAlways(n, skipped) == n + 1

\* the number of time.sleep(delay) calls after an iteration: the call is the
\* last statement of the loop body, which `continue` does not reach
SleepsAfter(n, skipped) == IF skipped THEN n ELSE n + 1

\* an iteration that ends at `continue`: nothing is scraped, and the
\* time.sleep at the end of the loop body is not reached
BatchSkip ==
    /\ bpc = "loop"
    /\ bidx <= Len(leads)
    /\ SkipLead(leads[bidx])
    /\ sleeps' = SleepsAfter(sleeps, TRUE)
    /\ bidx' = bidx + 1
    /\ UNCHANGED <<bpc, leads, leads0, scrapeLog>>
    /\ BatchFrame

\* an iteration that scrapes: scrape_website, the update of the lead, the
\* contact page when the main page gave no email, then time.sleep(delay).
\* scrape_website returns None at once for an empty url.
BatchScrape ==
    /\ bpc = "loop"
    /\ bidx <= Len(leads)
    /\ ~ SkipLead(leads[bidx])
    /\ \E data \in (IF leads[bidx].website = "" THEN {} ELSE ScrapedData) \cup {ScrapeFailed},
          contact \in ContactResults :
          LET tryContact == data.ok /\ data.email = ""
          IN  /\ leads' = IF data.ok
                          THEN [leads EXCEPT ![bidx] =
                                   UpdateLead(@, data, IF tryContact THEN contact ELSE "")]
                          ELSE leads
              /\ scrapeLog' = scrapeLog
                     \o <<[op |-> "scrapeWebsite", idx |-> bidx]>>
                     \o (IF tryContact THEN <<[op |-> "scrapeContactPage", idx |-> bidx]>>
                         ELSE <<>>)
              /\ (tryContact \/ contact = "")
    /\ sleeps' = SleepsAfter(sleeps, FALSE)
    /\ bidx' = bidx + 1
    /\ UNCHANGED <<bpc, leads0>>
    /\ BatchFrame

\* return leads
BatchReturn ==
    /\ bpc = "loop"
    /\ bidx > Len(leads)
    /\ bpc' = "done"
    /\ UNCHANGED <<leads, leads0, bidx, scrapeLog, sleeps>>
    /\ BatchFrame

BatchNext == BatchSkip \/ BatchScrape \/ BatchReturn

----------------------------------------------------------------------------
(* PlacesSearcher.parse_address_components                                 *)
(*                                                                         *)
(* A component is its type tags (those the method looks at), its longText  *)
(* and its shortText.                                                      *)

AddressTags == {"locality", "administrative_area_level_1", "postal_code"}
Components == [types : SUBSET AddressTags, longText : {"Long1", "Long2"},
               shortText : {"Sh1", "Sh2"}]
NoAddress == [city |-> "", state |-> "", zip |-> ""]

\* the loop body with each field assigned only while it is still empty and
\* every tag tested on its own
ParseComponentFirstWins(acc, component) ==
    [city  |-> IF "locality" \in component.types /\ acc.city = ""
               THEN component.longText ELSE acc.city,
     state |-> IF "administrative_area_level_1" \in component.types /\ acc.state = ""
               THEN component.shortText ELSE acc.state,
     zip   |-> IF "postal_code" \in component.types /\ acc.zip = ""
               THEN component.longText ELSE acc.zip]

\* the loop body: one if/elif chain, each branch a plain assignment
ParseComponent(acc, component) ==
    IF "locality" \in component.types
    THEN [acc EXCEPT !.city = component.longText]
    ELSE IF "administrative_area_level_1" \in component.types
    THEN [acc EXCEPT !.state = component.shortText]
    ELSE IF "postal_code" \in component.types
    THEN [acc EXCEPT !.zip = component.longText]
    ELSE acc

RECURSIVE ParseFrom(_, _)
ParseFrom(acc, cs) ==
    IF cs = <<>> THEN acc ELSE ParseFrom(ParseComponent(acc, Head(cs)), Tail(cs))

\* city, state, zipcode = '', '', ''; for component in address_components: ...
ParseAddressComponents(address_components) == ParseFrom(NoAddress, address_components)

AddrIdle == ppc = "idle" /\ components = <<>> /\ parsed = NoAddress

AddrInit ==
    /\ ppc = "call"
    /\ components \in SeqsUpTo(Components, MaxComponents)
    /\ parsed = NoAddress

ParseStep ==
    /\ ppc = "call"
    /\ parsed' = ParseAddressComponents(components)
    /\ ppc' = "done"
    /\ UNCHANGED components
    /\ AddrFrame

AddrNext == ParseStep

----------------------------------------------------------------------------
(* Two /search runs that have found leads and authenticated, from the      *)
(* tab-name statement on, writing to one spreadsheet.  Each spreadsheet    *)
(* call is one atomic action and fails only for the state of the           *)
(* spreadsheet: addSheet on a title that exists, a values call on a tab    *)
(* that does not.                                                          *)
(*                                                                         *)
(* The spreadsheet is the list of its tabs, each a title and its rows; a   *)
(* row is who wrote it and what it is, or blank.                           *)

Runs == {1, 2}

Blank == [kind |-> "blank", run |-> 0]
Row(kind, r) == [kind |-> kind, run |-> r]

\* tab_name of a run: its keyword, zipcode and the minute it reads the clock
RunTab(r) == TabName(wreq[r].keyword, wreq[r].zipcode, wreq[r].minute)

HasTab(sh, title) == \E k \in 1..Len(sh) : sh[k].title = title
TabIdx(sh, title) == CHOOSE k \in 1..Len(sh) : sh[k].title = title
TabRows(sh, title) == sh[TabIdx(sh, title)].rows

\* batchUpdate addSheet: rejected when the title exists (create_new_tab then
\* prints the error and returns None)
AddSheet(sh, title) ==
    IF HasTab(sh, title) THEN sh ELSE Append(sh, [title |-> title, rows |-> <<>>])

\* values.update on <tab>!A1:x1: row 1 is replaced
UpdateRow1(rows, row) == IF rows = <<>> THEN <<row>> ELSE [rows EXCEPT ![1] = row]

LastFilled(rows) ==
    LET filled == {k \in 1..Len(rows) : rows[k] # Blank}
    IN  IF filled = {} THEN 0 ELSE CHOOSE k \in filled : \A m \in filled : k >= m

\* values.append with INSERT_ROWS on <tab>!A<start>: the row goes below the
\* last filled row, and not above row <start>
AppendAt(rows, start, row) ==
    LET pos == Max(start, LastFilled(rows) + 1)
    IN  [k \in 1..pos |-> IF k = pos THEN row ELSE IF k <= Len(rows) THEN rows[k] ELSE Blank]

SetRows(sh, title, rows) == [sh EXCEPT ![TabIdx(sh, title)].rows = rows]

\* the audit row appended at "Metadata!A1"
MetaAppendA1(rows, row) == AppendAt(rows, 1, row)

\* range="Metadata!A2", insertDataOption='INSERT_ROWS'
MetaAppend2(rows, row) == AppendAt(rows, 2, row)

TwoIdle ==
    /\ wpc = [r \in Runs |-> "idle"]
    /\ wreq = [r \in Runs |-> [keyword |-> "", zipcode |-> "", minute |-> 0]]
    /\ wsheet = <<>>
    /\ wraised = [r \in Runs |-> FALSE]

TwoInit ==
    /\ wpc = [r \in Runs |-> "tab"]
    /\ wreq \in [Runs -> [keyword : Keywords, zipcode : Zipcodes, minute : Minutes]]
    /\ wsheet = <<>>
    /\ wraised = [r \in Runs |-> FALSE]

\* sheets_handler.create_new_tab(tab_name)
WTab(r) ==
    /\ wpc[r] = "tab"
    /\ wsheet' = AddSheet(wsheet, RunTab(r))
    /\ wpc' = [wpc EXCEPT ![r] = "headers"]
    /\ UNCHANGED <<wreq, wraised>>
    /\ TwoFrame

\* sheets_handler.write_headers(tab_name): False when the update fails
WHeaders(r) ==
    /\ wpc[r] = "headers"
    /\ wsheet' = IF HasTab(wsheet, RunTab(r))
                 THEN SetRows(wsheet, RunTab(r),
                              UpdateRow1(TabRows(wsheet, RunTab(r)), Row("header13", r)))
                 ELSE wsheet
    /\ wpc' = [wpc EXCEPT ![r] = "data"]
    /\ UNCHANGED <<wreq, wraised>>
    /\ TwoFrame

\* sheets_handler.write_data(tab_name, leads): the lead rows appended at A2
WData(r) ==
    /\ wpc[r] = "data"
    /\ wsheet' = IF HasTab(wsheet, RunTab(r))
                 THEN SetRows(wsheet, RunTab(r),
                              AppendAt(TabRows(wsheet, RunTab(r)), 2, Row("lead", r)))
                 ELSE wsheet
    /\ wpc' = [wpc EXCEPT ![r] = "meta_probe"]
    /\ UNCHANGED <<wreq, wraised>>
    /\ TwoFrame

\* log_search_metadata: try: values.get("Metadata!A1") except: ...
WProbe(r) ==
    /\ wpc[r] = "meta_probe"
    /\ wpc' = [wpc EXCEPT ![r] = IF HasTab(wsheet, MetadataTab) THEN "meta_append"
                                 ELSE "meta_create"]
    /\ UNCHANGED <<wreq, wsheet, wraised>>
    /\ TwoFrame

\* self.create_new_tab("Metadata")
WCreate(r) ==
    /\ wpc[r] = "meta_create"
    /\ wsheet' = AddSheet(wsheet, MetadataTab)
    /\ wpc' = [wpc EXCEPT ![r] = "meta_hdr"]
    /\ UNCHANGED <<wreq, wraised>>
    /\ TwoFrame

\* values.update("Metadata!A1:G1"), not inside a try: an error leaves
\* log_search_metadata
WHeader(r) ==
    /\ wpc[r] = "meta_hdr"
    /\ IF HasTab(wsheet, MetadataTab)
       THEN /\ wsheet' = SetRows(wsheet, MetadataTab,
                                 UpdateRow1(TabRows(wsheet, MetadataTab), Row("header7", r)))
            /\ wpc' = [wpc EXCEPT ![r] = "meta_fmt"]
            /\ UNCHANGED wraised
       ELSE /\ wraised' = [wraised EXCEPT ![r] = TRUE]
            /\ wpc' = [wpc EXCEPT ![r] = "done"]
            /\ UNCHANGED wsheet
    /\ UNCHANGED wreq
    /\ TwoFrame

\* self.format_headers("Metadata")
WFormat(r) ==
    /\ wpc[r] = "meta_fmt"
    /\ wpc' = [wpc EXCEPT ![r] = "meta_append"]
    /\ UNCHANGED <<wreq, wsheet, wraised>>
    /\ TwoFrame

\* try: values.append("Metadata!A2", [row]) except Exception: print
WAppend(r) ==
    /\ wpc[r] = "meta_append"
    /\ wsheet' = IF HasTab(wsheet, MetadataTab)
                 THEN SetRows(wsheet, MetadataTab,
                              MetaAppend2(TabRows(wsheet, MetadataTab), Row("audit", r)))
                 ELSE wsheet
    /\ wpc' = [wpc EXCEPT ![r] = "done"]
    /\ UNCHANGED <<wreq, wraised>>
    /\ TwoFrame

TwoNext ==
    \E r \in Runs :
        \/ WTab(r) \/ WHeaders(r) \/ WData(r)
        \/ WProbe(r) \/ WCreate(r) \/ WHeader(r) \/ WFormat(r) \/ WAppend(r)

----------------------------------------------------------------------------
(* Specifications: one component runs, the others stay idle *)

InitEstimate == EstInit /\ RouteIdle /\ AreaIdle /\ EmailIdle /\ SocialIdle /\ BatchIdle /\ AddrIdle
    /\ TwoIdle

EstNext == EstimateRoute

SpecEstimate == InitEstimate /\ [][EstNext]_vars

Init == RouteInit /\ EstIdle /\ AreaIdle /\ EmailIdle /\ SocialIdle /\ BatchIdle /\ AddrIdle
    /\ TwoIdle

Next == RouteNext

Spec == Init /\ [][Next]_vars

InitArea == AreaInit /\ EstIdle /\ RouteIdle /\ EmailIdle /\ SocialIdle /\ BatchIdle /\ AddrIdle
    /\ TwoIdle

SpecArea == InitArea /\ [][AreaNext]_vars

InitEmail == EmailInit /\ EstIdle /\ RouteIdle /\ AreaIdle /\ SocialIdle /\ BatchIdle /\ AddrIdle
    /\ TwoIdle

SpecEmail == InitEmail /\ [][EmailNext]_vars

InitSocial == SocialInit /\ EstIdle /\ RouteIdle /\ AreaIdle /\ EmailIdle /\ BatchIdle /\ AddrIdle
    /\ TwoIdle

SpecSocial == InitSocial /\ [][SocialNext]_vars

InitBatch == BatchInit /\ EstIdle /\ RouteIdle /\ AreaIdle /\ EmailIdle /\ SocialIdle /\ AddrIdle
    /\ TwoIdle

SpecBatch == InitBatch /\ [][BatchNext]_vars

InitAddr == AddrInit /\ EstIdle /\ RouteIdle /\ AreaIdle /\ EmailIdle /\ SocialIdle /\ BatchIdle
    /\ TwoIdle

SpecAddr == InitAddr /\ [][AddrNext]_vars

InitTwo == TwoInit /\ EstIdle /\ RouteIdle /\ AreaIdle /\ EmailIdle /\ SocialIdle /\ BatchIdle
    /\ AddrIdle

SpecTwo == InitTwo /\ [][TwoNext]_vars

----------------------------------------------------------------------------
(* Properties of the /search route (specification Spec) *)

CallsOf(ops) == SelectSeq(calls, LAMBDA c : c.op \in ops)
OpsOf(cs) == [k \in 1..Len(cs) |-> cs[k].op]
Invoked(op) == \E k \in 1..Len(calls) : calls[k].op = op
SearchReturned == \E k \in 1..Len(calls) : calls[k].op = "searchArea" /\ calls[k].res = "returned"
Authenticated == \E k \in 1..Len(calls) : calls[k].op = "SheetsHandler" /\ calls[k].res = "ok"

EnrichAndSheetOps == {"scrapeBatch", "SheetsHandler", "createNewTab", "writeHeaders",
                      "writeData", "logSearchMetadata"}
WriteOps == {"createNewTab", "writeHeaders", "writeData", "logSearchMetadata"}
WriteOrder == <<"createNewTab", "writeHeaders", "writeData", "logSearchMetadata">>

\* C1: once searchArea has returned an empty list the run is over with the
\* response {success: false, error: "No results found"}, and no scraper,
\* SheetsHandler, createNewTab, writeHeaders, writeData or logSearchMetadata
\* call has been made, nor any tab created.
C1_EmptySearchStopsRun ==
    (SearchReturned /\ nleads = 0) =>
        /\ pc = "done"
        /\ response = NoResults
        /\ CallsOf(EnrichAndSheetOps) = <<>>
        /\ tab_name = None

C1_Witness == SearchReturned /\ nleads = 0 /\ pc = "done"

\* C2 as stated: in a finished run that found leads and authenticated,
\* createNewTab, writeHeaders, writeData and logSearchMetadata have each been
\* invoked exactly once, in that order (whoever the caller).
C2_EachInvokedOnce ==
    (pc = "done" /\ nleads > 0 /\ Authenticated) => OpsOf(CallsOf(WriteOps)) = WriteOrder

\* C2 amended: in a finished run that found leads and authenticated, the
\* route itself has invoked createNewTab, writeHeaders, writeData and
\* logSearchMetadata exactly once each, in that order, whatever the earlier
\* ones reported; the only other invocation of any of them is at most one
\* createNewTab("Metadata"), made by logSearchMetadata after it was entered.
C2_RouteInvokesEachOnce ==
    (pc = "done" /\ nleads > 0 /\ Authenticated) =>
        LET byRoute == SelectSeq(calls, LAMBDA c : c.op \in WriteOps /\ c.by = "route")
            nested  == SelectSeq(calls, LAMBDA c : c.op \in WriteOps /\ c.by # "route")
        IN  /\ OpsOf(byRoute) = WriteOrder
            /\ \A k \in 1..3 : byRoute[k].arg = tab_name
            /\ Len(nested) <= 1
            /\ \A k \in 1..Len(nested) :
                  /\ nested[k] \in {Call("createNewTab", "logSearchMetadata", MetadataTab, r) :
                                       r \in {"ok", "failed"}}
                  /\ calls[Len(calls)] = nested[k]

\* a finished run whose tab creation failed and whose later writes and
\* metadata logging were invoked all the same, Metadata tab created on the way
C2_Witness ==
    /\ pc = "done" /\ nleads > 0 /\ Authenticated
    /\ \E k \in 1..Len(calls) :
          calls[k].op = "createNewTab" /\ calls[k].by = "route" /\ calls[k].res = "failed"
    /\ Invoked("writeData") /\ Invoked("logSearchMetadata")
    /\ \E k \in 1..Len(calls) : calls[k].by = "logSearchMetadata"

\* C3: a run never blocks before its end, a finished run has produced a JSON
\* body with a boolean success flag, and when a fault was raised that body
\* is {success: false, error: <the fault's message>}.
C3_FaultsBecomeJson ==
    /\ pc # "done" => ENABLED RouteNext
    /\ pc = "done" =>
          /\ response # NoResponse
          /\ response.success \in BOOLEAN
          /\ raised # None => response = [success |-> FALSE, error |-> raised]

\* a fault raised by the last component call of the route, after every write
C3_Witness ==
    /\ pc = "done" /\ raised = "HttpError: Metadata!A1:G1"
    /\ Invoked("writeData")

\* C13: log_search_metadata raises nothing to the route, whichever of its
\* spreadsheet calls fails: a run that has entered it ends with no fault
\* raised and with {success: true}.
C13_MetadataNeverFailsRun ==
    (pc = "done" /\ Invoked("logSearchMetadata")) =>
        /\ raised = None
        /\ response.success = TRUE

----------------------------------------------------------------------------
(* Properties of search_area (specification SpecArea) *)

SameId(k, m) == seen[k].place.id = seen[m].place.id
IsFirst(k) == \A m \in 1..(k - 1) : ~ SameId(k, m)
Passes(k) == PassesFilter(seen[k].place, center, aradius)
IsFirstPassing(k) == Passes(k) /\ \A m \in 1..(k - 1) : ~ (SameId(k, m) /\ Passes(m))
UniqueIds ==
    \A i, j \in 1..Len(unique_places) :
        i # j => unique_places[i].place_id # unique_places[j].place_id

NoZeroCoordinate ==
    \A k \in 1..Len(seen) :
        seen[k].place.location.lat # 0 /\ seen[k].place.location.lng # 0

\* C4 as stated, for place records none of which has a coordinate equal to
\* 0: the leads have distinct place_ids, each lead is the one derived from
\* the first place record met with its place_id, and a record met after
\* another with the same place_id changes nothing.
C4_FirstEncounteredWins ==
    NoZeroCoordinate =>
        /\ UniqueIds
        /\ \A j \in 1..Len(unique_places) :
              \E k \in 1..Len(seen) :
                  /\ seen[k].place.id = unique_places[j].place_id
                  /\ IsFirst(k)
                  /\ unique_places[j] = LeadData(seen[k].place)
        /\ \A k \in 1..Len(seen) : ~ IsFirst(k) => ~ seen[k].changed
        /\ apc = "done" => areaResult = unique_places

\* C4 amended: the leads have distinct place_ids, each lead is the one
\* derived from the first place record met with its place_id that passes
\* the location and radius filter, and no other record changes the leads:
\* records met before it are dropped by the filter, records met after it
\* are ignored.
C4_FirstRecordedWins ==
    /\ UniqueIds
    /\ \A j \in 1..Len(unique_places) :
          \E k \in 1..Len(seen) :
              /\ seen[k].place.id = unique_places[j].place_id
              /\ IsFirstPassing(k)
              /\ unique_places[j] = LeadData(seen[k].place)
    /\ \A k \in 1..Len(seen) : seen[k].changed <=> IsFirstPassing(k)
    /\ apc = "done" => areaResult = unique_places

\* two records with one place_id and different data, both passing the
\* filter, and the result holds the lead of the first
C4_Witness ==
    /\ apc = "done"
    /\ \E k, m \in 1..Len(seen) :
          /\ k < m /\ SameId(k, m) /\ Passes(k) /\ Passes(m)
          /\ seen[k].place.name # seen[m].place.name
          /\ areaResult = <<LeadData(seen[k].place)>>

LocationPresent(place) == place.location.lat # Missing /\ place.location.lng # Missing

\* C5: a place record whose place_id was not yet recorded when it was met
\* gave a lead exactly if its location is present (0 included) and within
\* radius_miles of the center, and then its place_id is among the leads.
C5_LeadIffPresentAndInRadius ==
    \A k \in 1..Len(seen) :
        ~ seen[k].recorded =>
            /\ seen[k].added <=>
                  /\ LocationPresent(seen[k].place)
                  /\ WithinRadius(center.lat, center.lng, seen[k].place.location.lat,
                                  seen[k].place.location.lng, aradius)
            /\ seen[k].added => Recorded(unique_places, seen[k].place.id)

InRangeOffsets(c, radius_miles) ==
    LET n == NumPoints(radius_miles)
    IN  {o \in [i : (-n)..n, j : (-n)..n] :
            WithinRadius(c.lat, c.lng, LatticePoint(c, o).lat, LatticePoint(c, o).lng,
                         radius_miles)}

\* C10 as stated: when geocoding gave a center that search_area accepts, a
\* finished search_area has called search_nearby estimated_searches =
\* (2n+1)^2 times.
C10_CallsEqualEstimate ==
    (apc = "done" /\ ~ Falsy(center.lat)) =>
        nearbyCalls = EstimateCost(aradius).estimated_searches

\* C10 amended: a finished search_area has called search_nearby once for
\* each lattice point within radius_miles of the center, which is at most
\* estimated_searches = (2n+1)^2 and less whenever a lattice point is out of
\* range; it has made no call when the center's latitude is absent or 0.
C10_CallsEqualInRangePoints ==
    apc = "done" =>
        /\ ~ Falsy(center.lat) =>
              /\ nearbyCalls = Cardinality(InRangeOffsets(center, aradius))
              /\ nearbyCalls <= EstimateCost(aradius).estimated_searches
              /\ nearbyCalls < EstimateCost(aradius).estimated_searches
                    <=> \E k \in 1..Len(AllLatticePoints(center, aradius)) :
                            ~ WithinRadius(center.lat, center.lng,
                                           AllLatticePoints(center, aradius)[k].lat,
                                           AllLatticePoints(center, aradius)[k].lng, aradius)
        /\ Falsy(center.lat) => nearbyCalls = 0

\* a finished search of radius 10 that queried fewer points than estimated
C10_Witness ==
    /\ apc = "done" /\ ~ Falsy(center.lat) /\ aradius = 10
    /\ nearbyCalls < EstimateCost(aradius).estimated_searches

----------------------------------------------------------------------------
(* Properties of estimate_cost (specification SpecEstimate) *)

\* C6: for a radius >= 0 the estimate has estimated_searches =
\* (2 * max(1, floor(radius / 10)) + 1)^2, estimated_places = 10 times that,
\* details_cost = 0 and total_cost = nearby_cost = 0.032 per search; radius
\* 25 gives 25 searches, 250 places and 0.80.
C6_EstimateFormula ==
    epc = "done" =>
        LET e == eresponse.estimate
            n == Max(1, eradius \div 10)
        IN  /\ eresponse.success = TRUE
            /\ e.estimated_searches = (2 * n + 1) * (2 * n + 1)
            /\ e.estimated_places = 10 * e.estimated_searches
            /\ e.details_cost = 0
            /\ e.nearby_cost = 32 * e.estimated_searches
            /\ e.total_cost = e.nearby_cost
            /\ eradius = 25 =>
                  e.estimated_searches = 25 /\ e.estimated_places = 250 /\ e.total_cost = 800

C6_Witness == epc = "done" /\ eradius = 25 /\ eresponse.estimate.estimated_searches = 25

----------------------------------------------------------------------------
(* Properties of find_email (specification SpecEmail) *)

\* C7: the address find_email returns, from the text or from a mailto
\* link, never has an excluded domain.
C7_NeverExcludedDomain == mpc = "done" => ~ IsExcluded(emailResult.email)

----------------------------------------------------------------------------
(* Properties of scrape_batch (specification SpecBatch) *)

Indices(sq, Test(_)) == SelectSeq([k \in 1..Len(sq) |-> k], LAMBDA k : Test(sq[k]))
ScrapedIdx ==
    LET ws == SelectSeq(scrapeLog, LAMBDA c : c.op = "scrapeWebsite")
    IN  [k \in 1..Len(ws) |-> ws[k].idx]

\* C8: a lead with an empty website keeps its five enrichment fields and
\* has no scrape_website or scrape_contact_page call made for it; the leads
\* with a website are scraped, each once, in input order.
C8_EmptyWebsiteUntouched ==
    /\ Len(leads) = Len(leads0)
    /\ \A k \in 1..Len(leads0) :
          leads0[k].website = "" =>
              /\ leads[k] = leads0[k]
              /\ \A c \in 1..Len(scrapeLog) : scrapeLog[c].idx # k
    /\ bpc = "done" => ScrapedIdx = Indices(leads0, LAMBDA l : l.website # "")

\* a finished batch with a website-less lead, its fields filled, ahead of a
\* lead that was scraped and updated
C8_Witness ==
    /\ bpc = "done"
    /\ \E k, m \in 1..Len(leads0) :
          /\ k < m
          /\ leads0[k].website = "" /\ leads0[k].email # ""
          /\ leads0[m].website # "" /\ leads[m] # leads0[m]

\* C11 as stated: a finished batch of k leads has slept k times.
C11_SleepPerLead == bpc = "done" => sleeps = Len(leads)

\* C11 amended: the delay is applied exactly once after every iteration
\* that scrapes, whether the scrape succeeded or failed, and not after an
\* iteration skipped for an empty website: after the first bidx - 1 leads
\* the sleep count is the number of those leads that have a website, and a
\* finished batch has slept once per lead with a website.
C11_SleepPerScrapedLead ==
    /\ sleeps = Cardinality({k \in 1..(bidx - 1) : leads0[k].website # ""})
    /\ sleeps = Len(SelectSeq(scrapeLog, LAMBDA c : c.op = "scrapeWebsite"))
    /\ bpc = "done" => sleeps = Len(Indices(leads0, LAMBDA l : l.website # ""))

\* a finished batch of a skipped lead and a lead whose scrape failed (its
\* old email is still there): one sleep for two leads
C11_Witness ==
    /\ bpc = "done" /\ Len(leads0) = 2 /\ sleeps = 1
    /\ \E k, m \in 1..2 :
          /\ leads0[k].website = ""
          /\ leads0[m].website # "" /\ leads0[m].email # "" /\ leads[m] = leads0[m]

----------------------------------------------------------------------------
(* Properties of find_social_links (specification SpecSocial) *)

\* C9: scanning an anchor never changes a platform field that is already
\* set, so each field is written at most once and holds the URL of the
\* anchor that set it; an anchor changes at most one field, and an anchor
\* that takes the Facebook branch (its href names facebook.com while the
\* facebook field is empty) changes no other platform's field.
C9_FirstMatchWins ==
    [][ /\ \A p \in Platforms :
              /\ socials[p] # "" => socials'[p] = socials[p]
              /\ socials'[p] # socials[p] => socials'[p] = link'.url /\ p \in link'.profile
              /\ writes'[p] <= 1
        /\ \A p, q \in Platforms :
              (socials'[p] # socials[p] /\ socials'[q] # socials[q]) => p = q
        /\ (sidx' # sidx /\ BranchCheck(socials, link', "facebook")) =>
              \A p \in Platforms \ {"facebook"} : socials'[p] = socials[p]
      ]_vars

\* a second Facebook profile anchor has been scanned and left the field alone
C9_Witness ==
    /\ sidx >= 2
    /\ socials["facebook"] # ""
    /\ "facebook" \in link.profile
    /\ link.url # socials["facebook"]

----------------------------------------------------------------------------
(* Properties of parse_address_components (specification SpecAddr) *)

Tagged(tag) == {k \in 1..Len(components) : tag \in components[k].types}
FirstOf(S) == CHOOSE k \in S : \A m \in S : k <= m
LastOf(S) == CHOOSE k \in S : \A m \in S : k >= m

\* C12 as stated: city is the long text of the first component tagged
\* locality, state the short text of the first tagged
\* administrative_area_level_1, zip the long text of the first tagged
\* postal_code (each empty when no component has the tag), a component with
\* several of the tags counting for each.
C12_FirstOccurrenceWins ==
    ppc = "done" =>
        /\ parsed.city = IF Tagged("locality") = {} THEN ""
                         ELSE components[FirstOf(Tagged("locality"))].longText
        /\ parsed.state = IF Tagged("administrative_area_level_1") = {} THEN ""
                          ELSE components[FirstOf(Tagged("administrative_area_level_1"))].shortText
        /\ parsed.zip = IF Tagged("postal_code") = {} THEN ""
                        ELSE components[FirstOf(Tagged("postal_code"))].longText

\* the components that reach each branch of the if/elif chain
CityComponents == Tagged("locality")
StateComponents == Tagged("administrative_area_level_1") \ Tagged("locality")
ZipComponents ==
    Tagged("postal_code") \ (Tagged("locality") \cup Tagged("administrative_area_level_1"))

\* C12 amended: a component counts for one field only, the first of
\* locality, administrative_area_level_1, postal_code among its tags, and
\* the last component counting for a field wins: city is the long text of
\* the last component tagged locality, state the short text of the last
\* one tagged administrative_area_level_1 and not locality, zip the long
\* text of the last one tagged postal_code and neither of the other two
\* (each empty when there is no such component).
C12_LastOccurrenceWins ==
    ppc = "done" =>
        /\ parsed.city = IF CityComponents = {} THEN ""
                         ELSE components[LastOf(CityComponents)].longText
        /\ parsed.state = IF StateComponents = {} THEN ""
                          ELSE components[LastOf(StateComponents)].shortText
        /\ parsed.zip = IF ZipComponents = {} THEN ""
                        ELSE components[LastOf(ZipComponents)].longText

\* two locality components with different texts, parsed to the second's
C12_Witness ==
    /\ ppc = "done" /\ Len(components) = 2
    /\ "locality" \in components[1].types /\ "locality" \in components[2].types
    /\ components[1].longText # components[2].longText
    /\ parsed.city = components[2].longText


----------------------------------------------------------------------------
(* Properties of two runs on one spreadsheet (specification SpecTwo) *)

AllDone == \A r \in Runs : wpc[r] = "done"

\* the runs whose header or lead rows a tab holds
WritersOf(tab) ==
    {tab.rows[k].run : k \in {j \in 1..Len(tab.rows) : tab.rows[j].kind \in {"header13", "lead"}}}

\* C14: two /search requests that reach the writing stage use distinct tab
\* names, so no results tab holds header or lead rows of more than one run.
C14_OneRunPerTab ==
    \A k \in 1..Len(wsheet) : Cardinality(WritersOf(wsheet[k])) <= 1

MetadataTabs == {k \in 1..Len(wsheet) : wsheet[k].title = MetadataTab}
AuditRowsOf(rows, r) == {k \in 2..Len(rows) : rows[k] = Row("audit", r)}

\* C15: when two log_search_metadata invocations that started without a
\* Metadata tab have both finished, in any interleaving of their spreadsheet
\* calls, there is exactly one Metadata tab, its row 1 is the 7-column header,
\* the rows below are exactly one audit row per invocation, and neither
\* invocation raised.
C15_MetadataRace ==
    AllDone =>
        /\ Cardinality(MetadataTabs) = 1
        /\ LET rows == TabRows(wsheet, MetadataTab)
           IN  /\ Len(rows) = 1 + Cardinality(Runs)
               /\ rows[1].kind = "header7"
               /\ \A r \in Runs : Cardinality(AuditRowsOf(rows, r)) = 1
        /\ \A r \in Runs : ~ wraised[r]

\* both finished, and the header in row 1 was written by the run whose audit
\* row is not the first: the other run appended before this header write
C15_Witness ==
    /\ AllDone
    /\ HasTab(wsheet, MetadataTab)
    /\ LET rows == TabRows(wsheet, MetadataTab)
       IN  /\ Len(rows) >= 2
           /\ rows[2].kind = "audit"
           /\ rows[1].run # rows[2].run

====
